---- MODULE Spec2Model ----
(***************************************************************************)
(* Model of BusIndexed (packages/core/lib/BusIndexed.ts of comunica): a    *)
(* bus that indexes its subscribed actors by an identifier read from a     *)
(* field path, with the bucket '_undefined_' for actors without one.       *)
(*                                                                         *)
(* Also modelled: getHydraProperties of ActorRdfMetadataExtractHydraControls *)
(* (a promise over the events of a metadata stream), under SpecHydra.      *)
(*                                                                         *)
(* Identifier strings and Hydra property names are ordinary own-property   *)
(* keys; names that resolve through Object.prototype (toString,            *)
(* constructor, ...) are outside the modelled domain.                      *)
(***************************************************************************)
EXTENDS Integers, Sequences, FiniteSets, TLC

\* ------------------------------------------------------------------ bounds
\* Largest length of the base subscriber sequence and of the index content.
MaxBus == 3
\* Largest number of subscriptions of one actor that are not cancelled.
MaxSame == 2

\* ------------------------------------------------------- JavaScript values
Undef == [k |-> "undefined"]
TypeError == [k |-> "TypeError"]
Str(s) == [k |-> "string", s |-> s]
Arr(q) == [k |-> "array", q |-> q]
Obj(f, c) == [k |-> "object", f |-> f, c |-> c]

\* object[field]: reading a field of undefined raises a TypeError; a field
\* that the value does not have reads as undefined.
GetField(object, field) ==
  CASE object.k = "TypeError" -> TypeError
    [] object.k = "undefined" -> TypeError
    [] object.k = "object" -> IF object.f = field THEN object.c ELSE Undef
    [] OTHER -> Undef

\* fields.reduce((object, field) => object[field], start)
RECURSIVE Reduce(_, _)
Reduce(fields, object) ==
  IF fields = <<>> THEN object
  ELSE Reduce(Tail(fields), GetField(object, Head(fields)))

\* JavaScript truthiness of the values an identifier can have.
Truthy(v) ==
  CASE v.k = "undefined" -> FALSE
    [] v.k = "string" -> v.s # ""
    [] OTHER -> TRUE

\* ------------------------------------------------------------ bus config
\* The argument object given to new BusIndexed(args); NoArgs before the
\* bus is constructed.
VARIABLE args

\* The argument objects a bus is constructed with: the complete one, and the
\* ones that lack a field list.
ConstructorArgs ==
  {[name |-> Str("bus"), actorIdentifierFields |-> f[1],
    actionIdentifierFields |-> f[2]] :
     f \in {<<Arr(<<"args", "operationName">>), Arr(<<"operation", "type">>)>>,
            <<Undef, Arr(<<"operation", "type">>)>>,
            <<Arr(<<"args", "operationName">>), Undef>>}}

NoArgs ==
  [name |-> Undef, actorIdentifierFields |-> Undef,
   actionIdentifierFields |-> Undef]

\* new Bus(a): every property of the argument object becomes a property of
\* the bus.
BusNew(a) == [threw |-> FALSE, bus |-> a]

\* new BusIndexed(a): super(a) and nothing more.
BusIndexedNew(a) == BusNew(a)

\* this.actorIdentifierFields and this.actionIdentifierFields
actorIdentifierFields == BusIndexedNew(args).bus.actorIdentifierFields
actionIdentifierFields == BusIndexedNew(args).bus.actionIdentifierFields
WILDCARD == "_undefined_"

\* ------------------------------------------------------ actors and actions
\* The actor objects of the model, by name, and the value each has at the
\* identifier field path.
ActorObject(a) ==
  CASE a = "W" -> Obj("args", Obj("name", Str("w")))
    [] a = "E" -> Obj("args", Obj("operationName", Str("")))
    [] a = "S" -> Obj("args", Obj("operationName", Str("a")))
    [] a = "T" -> Obj("args", Obj("operationName", Str("b")))
    [] a = "M" -> Obj("args", Obj("operationName", Arr(<<"a", "b">>)))
    [] a = "D" -> Obj("args", Obj("operationName", Arr(<<"a", "a">>)))
    [] a = "Z" -> Obj("args", Obj("operationName", Arr(<<>>)))
    [] a = "U" -> Obj("args", Obj("operationName", Str("_undefined_")))
    [] a = "X" -> Obj("name", Str("x"))

\* The groups of actors a bus is populated from (one group per run).
Populations == {{"W", "S", "M"}, {"E", "Z", "T"}, {"U", "D"}, {"X", "T"}}
AllActors == UNION Populations

ActionObject(c) ==
  CASE c = "none" -> Obj("operation", Obj("ctx", Str("c")))
    [] c = "empty" -> Obj("operation", Obj("type", Str("")))
    [] c = "a" -> Obj("operation", Obj("type", Str("a")))
    [] c = "b" -> Obj("operation", Obj("type", Str("b")))
    [] c = "z" -> Obj("operation", Obj("type", Str("z")))
    [] c = "u" -> Obj("operation", Obj("type", Str("_undefined_")))
    [] c = "sparse" -> Obj("context", Str("c"))

Actions == {"none", "empty", "a", "b", "z", "u", "sparse"}

\* The elements of a sequence, and the number of occurrences of x in it.
Range(q) == {q[i] : i \in 1..Len(q)}
Count(x, q) == Cardinality({i \in 1..Len(q) : q[i] = x})

\* ------------------------------------------------------------ base Bus
\* Bus.subscribe: append to the subscriber sequence.
BusSubscribe(base, actor) == Append(base, actor)

\* Array.prototype.indexOf, 1-based; 0 when absent.
IndexOf(q, x) ==
  IF \E i \in 1..Len(q) : q[i] = x
  THEN CHOOSE i \in 1..Len(q) : q[i] = x /\ \A j \in 1..(i - 1) : q[j] # x
  ELSE 0

\* Array.prototype.splice(i, 1) for a valid position i.
Splice(q, i) == SubSeq(q, 1, i - 1) \o SubSeq(q, i + 1, Len(q))

\* Bus.unsubscribe: remove the first occurrence, report whether one was removed.
BusUnsubscribe(base, actor) ==
  LET i == IndexOf(base, actor)
  IN IF i >= 1 THEN [actors |-> Splice(base, i), ret |-> TRUE]
     ELSE [actors |-> base, ret |-> FALSE]

\* Bus.publish: one entry per subscriber, in sequence order.
BusPublish(base) == base

\* ---------------------------------------------------------- BusIndexed
\* this.actorsIndex[key] || []
Bucket(index, key) == IF key \in DOMAIN index THEN index[key] ELSE <<>>

getActorIdentifiers(actor) ==
  LET identifierValue ==
        IF actorIdentifierFields.k = "array"
        THEN Reduce(actorIdentifierFields.q, ActorObject(actor))
        ELSE TypeError  \* undefined has no reduce
  IN CASE identifierValue.k = "TypeError" -> TypeError
       [] ~Truthy(identifierValue) -> Undef
       [] identifierValue.k = "array" -> identifierValue
       [] OTHER -> Arr(<<identifierValue.s>>)

getActionIdentifier(action) ==
  IF actionIdentifierFields.k = "array"
  THEN Reduce(actionIdentifierFields.q, ActionObject(action))
  ELSE TypeError  \* undefined has no reduce

\* getActorIdentifiers(actor) ?? [ '_undefined_' ]
ActorIds(actor) ==
  LET r == getActorIdentifiers(actor)
  IN IF r.k = "undefined" THEN <<WILDCARD>> ELSE r.q

\* Variant: the base subscription is made once per call, not once per identifier.
RECURSIVE SubscribeLoop_BaseOnce(_, _, _, _)
SubscribeLoop_BaseOnce(ids, actor, base, index) ==
  IF ids = <<>> THEN [actors |-> base, actorsIndex |-> index]
  ELSE LET actorId == Head(ids)
           pushed == Append(Bucket(index, actorId), actor)
           index2 == [key \in DOMAIN index \cup {actorId} |->
                        IF key = actorId THEN pushed ELSE index[key]]
           base2 == IF Len(ids) = 1 THEN BusSubscribe(base, actor) ELSE base
       IN SubscribeLoop_BaseOnce(Tail(ids), actor, base2, index2)

\* Variant: subscribe fills the index and never calls the base subscribe.
RECURSIVE SubscribeLoop_NoBase(_, _, _, _)
SubscribeLoop_NoBase(ids, actor, base, index) ==
  IF ids = <<>>
  THEN [actors |-> base, actorsIndex |-> index]
  ELSE LET actorId == Head(ids)
           pushed == Append(Bucket(index, actorId), actor)
           index2 == [key \in DOMAIN index \cup {actorId} |->
                        IF key = actorId THEN pushed ELSE index[key]]
       IN SubscribeLoop_NoBase(Tail(ids), actor, base, index2)

\* The loop of subscribe over the remaining identifiers.
RECURSIVE SubscribeLoop(_, _, _, _)
SubscribeLoop(ids, actor, base, index) ==
  IF ids = <<>> THEN [actors |-> base, actorsIndex |-> index]
  ELSE LET actorId == Head(ids)
           pushed == Append(Bucket(index, actorId), actor)
           index2 == [key \in DOMAIN index \cup {actorId} |->
                        IF key = actorId THEN pushed ELSE index[key]]
       IN SubscribeLoop(Tail(ids), actor, BusSubscribe(base, actor), index2)

\* subscribe(actor) applied to a bus state.
SubscribeOp(base, index, actor) ==
  IF getActorIdentifiers(actor).k = "TypeError"
  THEN [actors |-> base, actorsIndex |-> index, threw |-> TRUE]
  ELSE LET r == SubscribeLoop(ActorIds(actor), actor, base, index)
       IN [actors |-> r.actors, actorsIndex |-> r.actorsIndex, threw |-> FALSE]

\* Variant: every occurrence of the actor is removed from the bucket.
UnindexOne_RemoveAll(index, actorId, actor) ==
  IF actorId \notin DOMAIN index THEN index
  ELSE LET spliced == SelectSeq(index[actorId], LAMBDA x : x # actor)
       IN IF Len(spliced) = 0
          THEN [key \in DOMAIN index \ {actorId} |-> index[key]]
          ELSE [index EXCEPT ![actorId] = spliced]

\* Variant: splice is called without the test i >= 0, and splice(-1, 1)
\* removes the last element.
UnindexOne_NoGuard(index, actorId, actor) ==
  IF actorId \notin DOMAIN index THEN index
  ELSE LET actors == index[actorId]
           i == IndexOf(actors, actor)
           spliced == IF i >= 1 THEN Splice(actors, i)
                      ELSE SubSeq(actors, 1, Len(actors) - 1)
       IN IF Len(spliced) = 0
          THEN [key \in DOMAIN index \ {actorId} |-> index[key]]
          ELSE [index EXCEPT ![actorId] = spliced]

\* Variant: the key of an emptied bucket is kept.
UnindexOne_NoPrune(index, actorId, actor) ==
  IF actorId \notin DOMAIN index THEN index
  ELSE LET actors == index[actorId]
           i == IndexOf(actors, actor)
           spliced == IF i >= 1 THEN Splice(actors, i) ELSE actors
       IN [index EXCEPT ![actorId] = spliced]

\* One iteration of unsubscribe on the index: remove the first occurrence
\* from the bucket, and drop the key of a bucket that is empty.
UnindexOne(index, actorId, actor) ==
  IF actorId \notin DOMAIN index THEN index
  ELSE LET actors == index[actorId]
           i == IndexOf(actors, actor)
           spliced == IF i >= 1 THEN Splice(actors, i) ELSE actors
       IN IF Len(spliced) = 0
          THEN [key \in DOMAIN index \ {actorId} |-> index[key]]
          ELSE [index EXCEPT ![actorId] = spliced]

\* Variant: unsubscribe reports whether the actor was removed from a bucket
\* of the index, not whether the base bus removed it.
RECURSIVE UnsubscribeLoop_IndexResult(_, _, _, _, _)
UnsubscribeLoop_IndexResult(ids, actor, base, index, unsubscribed) ==
  IF ids = <<>>
  THEN [actors |-> base, actorsIndex |-> index, ret |-> unsubscribed]
  ELSE LET index2 == UnindexOne(index, Head(ids), actor)
           sup == BusUnsubscribe(base, actor)
           found == actor \in Range(Bucket(index, Head(ids)))
       IN IF unsubscribed
          THEN UnsubscribeLoop_IndexResult(Tail(ids), actor, base, index2, TRUE)
          ELSE UnsubscribeLoop_IndexResult(Tail(ids), actor, sup.actors, index2,
                                           found)

\* The loop of unsubscribe over the remaining identifiers;
\* unsubscribed || super.unsubscribe(actor) calls the base bus only while
\* unsubscribed is still false.
RECURSIVE UnsubscribeLoop(_, _, _, _, _)
UnsubscribeLoop(ids, actor, base, index, unsubscribed) ==
  IF ids = <<>>
  THEN [actors |-> base, actorsIndex |-> index, ret |-> unsubscribed]
  ELSE LET index2 == UnindexOne(index, Head(ids), actor)
           sup == BusUnsubscribe(base, actor)
       IN IF unsubscribed
          THEN UnsubscribeLoop(Tail(ids), actor, base, index2, TRUE)
          ELSE UnsubscribeLoop(Tail(ids), actor, sup.actors, index2, sup.ret)

\* unsubscribe(actor) applied to a bus state.
UnsubscribeOp(base, index, actor) ==
  IF getActorIdentifiers(actor).k = "TypeError"
  THEN [actors |-> base, actorsIndex |-> index, ret |-> FALSE, threw |-> TRUE]
  ELSE LET r == UnsubscribeLoop(ActorIds(actor), actor, base, index, FALSE)
       IN [actors |-> r.actors, actorsIndex |-> r.actorsIndex,
           ret |-> r.ret, threw |-> FALSE]

\* Variant: the wildcard bucket is listed before the identifier's bucket.
PublishOp_WildcardFirst(base, index, action) ==
  LET actionId == getActionIdentifier(action)
  IN IF actionId.k = "TypeError" THEN [threw |-> TRUE, actors |-> <<>>]
     ELSE IF Truthy(actionId)
     THEN [threw |-> FALSE,
           actors |-> Bucket(index, WILDCARD) \o Bucket(index, actionId.s)]
     ELSE [threw |-> FALSE, actors |-> BusPublish(base)]

\* Variant: without identifier, only the wildcard bucket is tested.
PublishOp_FallbackWildcardOnly(base, index, action) ==
  LET actionId == getActionIdentifier(action)
  IN IF actionId.k = "TypeError" THEN [threw |-> TRUE, actors |-> <<>>]
     ELSE IF Truthy(actionId)
     THEN [threw |-> FALSE,
           actors |-> Bucket(index, actionId.s) \o Bucket(index, WILDCARD)]
     ELSE [threw |-> FALSE, actors |-> Bucket(index, WILDCARD)]

\* Variant: an identified publish without candidates scans the whole bus.
PublishOp_FullScanWhenEmpty(base, index, action) ==
  LET actionId == getActionIdentifier(action)
      found == IF Truthy(actionId)
               THEN Bucket(index, actionId.s) \o Bucket(index, WILDCARD)
               ELSE <<>>
  IN IF actionId.k = "TypeError" THEN [threw |-> TRUE, actors |-> <<>>]
     ELSE IF Truthy(actionId) /\ found # <<>>
     THEN [threw |-> FALSE, actors |-> found]
     ELSE [threw |-> FALSE, actors |-> BusPublish(base)]

\* The candidates of publish(action): the actors whose test is called, in
\* call order; threw when reading the action's identifier raises.
PublishOp(base, index, action) ==
  LET actionId == getActionIdentifier(action)
  IN IF actionId.k = "TypeError" THEN [threw |-> TRUE, actors |-> <<>>]
     ELSE IF Truthy(actionId)
     THEN [threw |-> FALSE,
           actors |-> Bucket(index, actionId.s) \o Bucket(index, WILDCARD)]
     ELSE [threw |-> FALSE, actors |-> BusPublish(base)]

\* ------------------------------------------------------------------ state
\* ------------------------------------ getHydraProperties(metadata)
\* Largest number of events the metadata stream emits.
MaxEvents == 3

\* An IRI is the sequence of its parts; HYDRA is the Hydra prefix.
HYDRA == <<"http://www.w3.org/ns/hydra/", "core#">>

\* value.startsWith(prefix) and value.slice(n)
StartsWith(value, prefix) ==
  Len(value) >= Len(prefix) /\ SubSeq(value, 1, Len(prefix)) = prefix
Slice(value, n) == SubSeq(value, n + 1, Len(value))

\* The quads of the metadata stream: two Hydra predicates and one that
\* shares only the first part of the prefix.
Predicates ==
  {HYDRA \o <<"next">>, HYDRA \o <<"search">>,
   <<"http://www.w3.org/ns/hydra/", "other#", "next">>}
Quads ==
  [subject : {"s1", "s2"}, predicate : Predicates, object : {"o1", "o2"}]
NoQuad == [subject |-> "", predicate |-> <<>>, object |-> ""]

VARIABLES
  emitted,          \* the events the metadata stream has emitted, in order
  hydraProperties,  \* the map the 'data' listener fills
  promise           \* the promise getHydraProperties returned

hydraVars == <<emitted, hydraProperties, promise>>

EmptyMap == [key \in {} |-> <<>>]

\* map[key] || (map[key] = fresh)
GetOrCreate(map, key, fresh) == IF key \in DOMAIN map THEN map[key] ELSE fresh
Put(map, key, value) ==
  [k \in DOMAIN map \cup {key} |-> IF k = key THEN value ELSE map[k]]

\* Variant: the 'data' listener files every quad, whatever its predicate.
OnData_NoPrefixTest(properties, quad) ==
  LET property == Slice(quad.predicate, Len(HYDRA))
      subjectProperties == GetOrCreate(properties, property, EmptyMap)
      objects == GetOrCreate(subjectProperties, quad.subject, <<>>)
  IN Put(properties, property,
         Put(subjectProperties, quad.subject, Append(objects, quad.object)))

\* The 'data' listener.
OnData(properties, quad) ==
  IF StartsWith(quad.predicate, HYDRA)
  THEN LET property == Slice(quad.predicate, Len(HYDRA))
           subjectProperties == GetOrCreate(properties, property, EmptyMap)
           objects == GetOrCreate(subjectProperties, quad.subject, <<>>)
       IN Put(properties, property,
              Put(subjectProperties, quad.subject,
                  Append(objects, quad.object)))
  ELSE properties

\* resolve(value) and reject(): a promise that has settled stays as it is.
NoPromise == [state |-> "none", value |-> EmptyMap]
Resolve(p, value) ==
  IF p.state = "pending" THEN [state |-> "resolved", value |-> value] ELSE p
Reject(p) ==
  IF p.state = "pending" THEN [state |-> "rejected", value |-> EmptyMap] ELSE p

Event(type, quad) == [type |-> type, quad |-> quad]
Ended == \E i \in 1..Len(emitted) : emitted[i].type = "end"

VARIABLES
  population,   \* the actors that exist in this run
  actors,       \* Bus.actors: the base subscriber sequence
  actorsIndex,  \* BusIndexed.actorsIndex: key -> actor sequence
  last,         \* the most recent call on the bus and what it returned
  active,       \* per actor: the subscribe calls not yet followed by an
                \* unsubscribe call of their own (at least the number of
                \* subscribe calls minus the number of unsubscribe calls)
  ever,         \* the actors for which a subscribe call has completed
  inflight      \* the identified publish whose steps are followed one by
                \* one: its action, the array it maps over, the entries
                \* made so far, and how far it is

busVars ==
  <<args, population, actors, actorsIndex, last, active, ever, inflight>>
vars == <<busVars, hydraVars>>

EmptyIndex == [key \in {} |-> <<>>]

\* Number of actor occurrences held by the index.
RECURSIVE SumLen(_, _)
SumLen(index, keys) ==
  IF keys = {} THEN 0
  ELSE LET key == CHOOSE x \in keys : TRUE
       IN Len(index[key]) + SumLen(index, keys \ {key})
IndexSize(index) == SumLen(index, DOMAIN index)

\* No publish is followed step by step.
NoPublish == [phase |-> "idle", action |-> "", copy |-> <<>>, result |-> <<>>]

\* No bus state is remembered.
NoBefore == [valid |-> FALSE, actors |-> <<>>, actorsIndex |-> EmptyIndex]

\* What is known of the most recent call: the operation, its argument,
\* whether it threw, what it returned, and (before) the bus state in which
\* the subscribe call was made that this call is, or directly undoes.
Call(op, arg, threw, ret, tested, result, before) ==
  [op |-> op, arg |-> arg, threw |-> threw, ret |-> ret, tested |-> tested,
   result |-> result, replies |-> [i \in 1..Len(result) |-> "pending"],
   before |-> before]

Init ==
  /\ args = NoArgs
  /\ population \in Populations
  /\ actors = <<>>
  /\ actorsIndex = EmptyIndex
  /\ last = Call("none", "", FALSE, FALSE, <<>>, <<>>, NoBefore)
  /\ active = [a \in AllActors |-> 0]
  /\ ever = {}
  /\ inflight = NoPublish
  /\ emitted = <<>>
  /\ hydraProperties = EmptyMap
  /\ promise = NoPromise

\* new BusIndexed(a)
New(a) ==
  /\ last.op = "none"
  /\ args' = a
  /\ last' = Call("new", "", BusIndexedNew(a).threw, FALSE, <<>>, <<>>,
                  NoBefore)
  /\ UNCHANGED <<population, actors, actorsIndex, active, ever, inflight>>
  /\ UNCHANGED hydraVars

\* The constructor has returned a bus.
Constructed == last.op # "none" /\ ~(last.op = "new" /\ last.threw)

\* bus.subscribe(actor)
Subscribe(actor) ==
  LET r == SubscribeOp(actors, actorsIndex, actor)
  IN /\ Constructed
     /\ actor \in population
     /\ active[actor] < MaxSame
     /\ Len(r.actors) <= MaxBus
     /\ IndexSize(r.actorsIndex) <= MaxBus
     /\ actors' = r.actors
     /\ actorsIndex' = r.actorsIndex
     /\ last' = Call("subscribe", actor, r.threw, FALSE, <<>>, <<>>,
                     [valid |-> TRUE, actors |-> actors, actorsIndex |-> actorsIndex])
     /\ active' = IF r.threw THEN active ELSE [active EXCEPT ![actor] = @ + 1]
     /\ ever' = IF r.threw THEN ever ELSE ever \cup {actor}
     /\ UNCHANGED <<args, population, inflight>>
     /\ UNCHANGED hydraVars

\* bus.unsubscribe(actor)
Unsubscribe(actor) ==
  LET r == UnsubscribeOp(actors, actorsIndex, actor)
  IN /\ Constructed
     /\ actor \in population
     /\ actors' = r.actors
     /\ actorsIndex' = r.actorsIndex
     /\ last' = Call("unsubscribe", actor, r.threw, r.ret, <<>>, <<>>,
                     IF last.op = "subscribe" /\ last.arg = actor /\ ~last.threw
                     THEN last.before ELSE NoBefore)
     /\ active' = IF r.threw \/ active[actor] = 0 THEN active
                ELSE [active EXCEPT ![actor] = @ - 1]
     /\ UNCHANGED <<args, population, ever, inflight>>
     /\ UNCHANGED hydraVars

\* Variant: publish merges the wildcard actors into the identifier's bucket
\* in place (push) instead of building a new array.
Publish_MergeInPlace(action, thrower) ==
  LET r == PublishOp(actors, actorsIndex, action)
      actionId == getActionIdentifier(action)
  IN /\ Constructed
     /\ thrower \in 0..Len(r.actors)
     /\ last' = IF r.threw
                THEN Call("publish", action, TRUE, FALSE, <<>>, <<>>, NoBefore)
                ELSE IF thrower = 0
                THEN Call("publish", action, FALSE, FALSE, r.actors, r.actors,
                          NoBefore)
                ELSE Call("publish", action, TRUE, FALSE,
                          SubSeq(r.actors, 1, thrower), <<>>, NoBefore)
     /\ actorsIndex' = IF ~r.threw /\ Truthy(actionId)
                          /\ actionId.s \in DOMAIN actorsIndex
                       THEN [actorsIndex EXCEPT ![actionId.s] = r.actors]
                       ELSE actorsIndex
     /\ UNCHANGED <<args, population, actors, active, ever, inflight>>
     /\ UNCHANGED hydraVars

\* bus.publish(action); thrower = 0 when every test call returns a promise,
\* otherwise the position of the candidate whose test raises synchronously,
\* which ends the map and the publish.
Publish(action, thrower) ==
  LET r == PublishOp(actors, actorsIndex, action)
  IN /\ Constructed
     /\ thrower \in 0..Len(r.actors)
     /\ last' = IF r.threw
                THEN Call("publish", action, TRUE, FALSE, <<>>, <<>>, NoBefore)
                ELSE IF thrower = 0
                THEN Call("publish", action, FALSE, FALSE, r.actors, r.actors,
                          NoBefore)
                ELSE Call("publish", action, TRUE, FALSE,
                          SubSeq(r.actors, 1, thrower), <<>>, NoBefore)
     /\ UNCHANGED <<args, population, actors, actorsIndex, active, ever, inflight>>
     /\ UNCHANGED hydraVars

\* The promise returned by the test of entry i of the last publish settles.
Settle(i, outcome) ==
  /\ last.op = "publish"
  /\ i \in 1..Len(last.replies)
  /\ last.replies[i] = "pending"
  /\ last' = [last EXCEPT !.replies[i] = outcome]
  /\ UNCHANGED <<args, population, actors, actorsIndex, active, ever, inflight>>
  /\ UNCHANGED hydraVars

\* ---- an identified publish, step by step
\* Variant: map() walks the buckets of the index themselves.
MappedArray_Live(index, p) ==
  Bucket(index, getActionIdentifier(p.action).s) \o Bucket(index, WILDCARD)

\* The array that map() walks: the one publish built from the two buckets
\* when it started.
MappedArray(index, p) == p.copy

\* publish(action) starts for an action with an identifier: the candidate
\* array is built; map() will visit as many positions as it has now.
PublishBegin(action) ==
  LET r == PublishOp(actors, actorsIndex, action)
  IN /\ Constructed
     /\ inflight.phase # "mapping"
     /\ ~r.threw /\ Truthy(getActionIdentifier(action))
     /\ inflight' = [phase |-> "mapping", action |-> action,
                     copy |-> r.actors, result |-> <<>>]
     /\ UNCHANGED <<args, population, actors, actorsIndex, last, active, ever>>
     /\ UNCHANGED hydraVars

\* map() visits the next position: it reads the element there and calls its
\* test; a position the array no longer has is skipped.
TestCall ==
  LET i == Len(inflight.result) + 1
      array == MappedArray(actorsIndex, inflight)
  IN /\ inflight.phase = "mapping"
     /\ i <= Len(inflight.copy)
     /\ inflight' = [inflight EXCEPT
                       !.result = IF i <= Len(array) THEN Append(@, array[i])
                                  ELSE Append(@, "")]
     /\ UNCHANGED <<args, population, actors, actorsIndex, last, active, ever>>
     /\ UNCHANGED hydraVars

\* map() has visited every position: publish returns the entries.
PublishReturn ==
  /\ inflight.phase = "mapping"
  /\ Len(inflight.result) = Len(inflight.copy)
  /\ inflight' = [inflight EXCEPT !.phase = "returned"]
  /\ last' = Call("publish", inflight.action, FALSE, FALSE, inflight.result,
                  inflight.result, NoBefore)
  /\ UNCHANGED <<args, population, actors, actorsIndex, active, ever>>
  /\ UNCHANGED hydraVars

\* The calls on the bus when subscribe and unsubscribe calls are made while
\* an identified publish is under way: from inside a test that map() is
\* calling, and after publish has returned, while the promises are pending.
NextInterleaved ==
  \/ \E a \in ConstructorArgs : New(a)
  \/ \E actor \in AllActors : Subscribe(actor)
  \/ \E actor \in AllActors : Unsubscribe(actor)
  \/ \E action \in Actions : PublishBegin(action)
  \/ TestCall
  \/ PublishReturn

\* A bus for a wildcard actor, an actor with one identifier and an actor
\* with two.
InitInterleaved == Init /\ population = {"W", "S", "M"}

SpecInterleaved == InitInterleaved /\ [][NextInterleaved]_vars

\* ---- getHydraProperties
\* getHydraProperties(metadata): the promise is created and the listeners
\* are attached.
GetHydraProperties ==
  /\ promise.state = "none"
  /\ promise' = [state |-> "pending", value |-> EmptyMap]
  /\ hydraProperties' = EmptyMap
  /\ UNCHANGED <<emitted, busVars>>

\* The stream emits 'data' with a quad; it does so only before 'end'.
EmitData(quad) ==
  /\ promise.state # "none" /\ ~Ended
  /\ Len(emitted) < MaxEvents
  /\ emitted' = Append(emitted, Event("data", quad))
  /\ hydraProperties' = OnData(hydraProperties, quad)
  /\ UNCHANGED <<promise, busVars>>

\* The stream emits 'end', once.
EmitEnd ==
  /\ promise.state # "none" /\ ~Ended
  /\ Len(emitted) < MaxEvents
  /\ emitted' = Append(emitted, Event("end", NoQuad))
  /\ promise' = Resolve(promise, hydraProperties)
  /\ UNCHANGED <<hydraProperties, busVars>>

\* The stream emits 'error'.
EmitError ==
  /\ promise.state # "none"
  /\ Len(emitted) < MaxEvents
  /\ emitted' = Append(emitted, Event("error", NoQuad))
  /\ promise' = Reject(promise)
  /\ UNCHANGED <<hydraProperties, busVars>>

NextHydra ==
  \/ GetHydraProperties
  \/ \E quad \in Quads : EmitData(quad)
  \/ EmitEnd
  \/ EmitError

\* One call of getHydraProperties on one stream; no bus takes part.
InitHydra == Init /\ population = {"W", "S", "M"}

SpecHydra == InitHydra /\ [][NextHydra]_vars

\* The most test calls one publish makes: the identifier's bucket followed
\* by the wildcard bucket, which for the identifier '_undefined_' is the
\* same bucket twice.
MaxTests == 2 * MaxBus

Next ==
  \/ \E a \in ConstructorArgs : New(a)
  \/ \E actor \in AllActors : Subscribe(actor)
  \/ \E actor \in AllActors : Unsubscribe(actor)
  \/ \E action \in Actions : \E thrower \in 0..MaxTests :
       Publish(action, thrower)
  \/ \E i \in 1..MaxTests : \E outcome \in {"resolved", "rejected"} :
       Settle(i, outcome)

Spec == Init /\ [][Next]_vars

TypeOK ==
  /\ args \in ConstructorArgs \cup {NoArgs}
  /\ population \in Populations
  /\ Len(actors) <= MaxBus
  /\ \A key \in DOMAIN actorsIndex : Len(actorsIndex[key]) <= MaxBus

\* ---------------------------------------------------------------- helpers

\* The action's identifier is present: a non-empty string.
Identified(action) ==
  LET actionId == getActionIdentifier(action)
  IN actionId.k = "string" /\ actionId.s # ""
\* Identifier extraction on the action yields a falsy value (undefined or
\* the empty string): `if (actionId)` fails and publish takes the full scan.
Unidentified(action) ==
  LET actionId == getActionIdentifier(action)
  IN actionId.k # "TypeError" /\ ~Truthy(actionId)
\* The identifier field path of the actor can be followed to its end.
Shaped(actor) == getActorIdentifiers(actor).k # "TypeError"
\* The actor's identifier value is absent (or falsy): it has no identifier.
NoIdentifier(actor) == getActorIdentifiers(actor).k = "undefined"
\* The identified actions whose identifier is id.
ActionsFor(id) == {c \in Actions : Identified(c) /\ getActionIdentifier(c).s = id}

\* The last call was a publish that returned its result array.
Published == last.op = "publish" /\ ~last.threw

\* ------------------------------------------------------------------ C1
\* The last two calls were subscribe(A) and then unsubscribe(A), for an
\* actor A whose identifier path can be followed.
Undone ==
  /\ last.op = "unsubscribe" /\ ~last.threw
  /\ last.before.valid

\* C1: whatever the bus state, the actor A and the action, publish(action)
\* after subscribe(A) followed by unsubscribe(A) lists the same actors in
\* the same order as publish(action) did before subscribe(A).
C1_SubscribeUnsubscribeSymmetry ==
  Undone =>
    \A action \in Actions :
      PublishOp(actors, actorsIndex, action)
        = PublishOp(last.before.actors, last.before.actorsIndex, action)

\* ------------------------------------------------------------------ C2
\* C2: a publish of an identified action returns one entry per element of
\* the identifier's bucket followed by the wildcard bucket, calls test on
\* exactly these actors, and the entries keep that order whichever of the
\* returned promises settle first; each bucket is in subscription order, a
\* subscribe adding the actor after the actors the bucket already holds.
C2_PublishOrder ==
  /\ (last.op = "subscribe" /\ ~last.threw) =>
       \A key \in DOMAIN actorsIndex :
         LET was == Bucket(last.before.actorsIndex, key)
         IN /\ Len(was) <= Len(actorsIndex[key])
            /\ SubSeq(actorsIndex[key], 1, Len(was)) = was
            /\ \A i \in (Len(was) + 1)..Len(actorsIndex[key]) :
                 actorsIndex[key][i] = last.arg
  /\ (Published /\ Identified(last.arg)) =>
    LET expected == Bucket(actorsIndex, getActionIdentifier(last.arg).s)
                      \o Bucket(actorsIndex, WILDCARD)
    IN /\ last.result = expected
       /\ last.tested = expected
       /\ Len(last.replies) = Len(expected)

\* A publish whose result has a bucket actor before a wildcard actor, the
\* last promise settled while the first is still pending.
C2_Witness ==
  /\ Published /\ Identified(last.arg)
  /\ Bucket(actorsIndex, getActionIdentifier(last.arg).s) # <<>>
  /\ getActionIdentifier(last.arg).s # WILDCARD
  /\ Bucket(actorsIndex, WILDCARD) # <<>>
  /\ Len(actors) > Len(last.result)
  /\ last.replies[1] = "pending"
  /\ last.replies[Len(last.replies)] # "pending"

\* ------------------------------------------------------------------ C3
\* C3: in every reachable state, an actor without identifier that has been
\* subscribed more often than unsubscribed is among the candidates of
\* publish(action) for every identified action.  (active[A] > 0 holds
\* whenever A has more subscribe calls than unsubscribe calls.)
C3_WildcardInclusion ==
  /\ \A actor \in population : \A action \in Actions :
       (NoIdentifier(actor) /\ active[actor] > 0 /\ Identified(action)) =>
         actor \in Range(PublishOp(actors, actorsIndex, action).actors)
  /\ \A actor \in population :
       (Published /\ Identified(last.arg) /\ NoIdentifier(actor) /\ active[actor] > 0) =>
         actor \in Range(last.result)

\* An identified publish whose identifier has no bucket returned a subscribed
\* wildcard actor, and not the other subscribers of the bus.
C3_Witness ==
  /\ Published /\ Identified(last.arg)
  /\ getActionIdentifier(last.arg).s \notin DOMAIN actorsIndex
  /\ \E actor \in population :
       /\ NoIdentifier(actor) /\ active[actor] > 0
       /\ actor \in Range(last.result)
       /\ Len(actors) > Len(last.result)

\* ------------------------------------------------------------------ C4
\* C4: subscribe(A) of an actor A reporting the identifiers [i1, ..., iN]
\* makes A a candidate of publish for an action identified as ik, for each
\* k, and adds N occurrences of A to the full scan of a publish without
\* identifier: exactly N occurrences when A had not been subscribed before.
C4_MultiIdentifierFanOut ==
  /\ \A actor \in population :
       getActorIdentifiers(actor).k = "array" =>
         LET ids == ActorIds(actor)
             s == SubscribeOp(actors, actorsIndex, actor)
         IN /\ \A k \in 1..Len(ids) : \A action \in ActionsFor(ids[k]) :
                 actor \in Range(PublishOp(s.actors, s.actorsIndex, action).actors)
            /\ \A action \in {c \in Actions : Unidentified(c)} :
                 LET was == PublishOp(actors, actorsIndex, action).actors
                     now == PublishOp(s.actors, s.actorsIndex, action).actors
                 IN /\ Count(actor, now) = Count(actor, was) + Len(ids)
                    /\ actor \notin ever => Count(actor, now) = Len(ids)
  /\ (last.op = "subscribe" /\ ~last.threw
        /\ getActorIdentifiers(last.arg).k = "array") =>
       LET ids == ActorIds(last.arg)
       IN /\ \A k \in 1..Len(ids) : \A action \in ActionsFor(ids[k]) :
               last.arg \in Range(PublishOp(actors, actorsIndex, action).actors)
          /\ Count(last.arg, BusPublish(actors))
               = Count(last.arg, BusPublish(last.before.actors)) + Len(ids)

\* An actor with two distinct identifiers has just been subscribed for the
\* first time and the full scan lists it twice.
C4_Witness ==
  /\ last.op = "subscribe" /\ ~last.threw
  /\ getActorIdentifiers(last.arg).k = "array"
  /\ Len(ActorIds(last.arg)) = 2
  /\ ActorIds(last.arg)[1] # ActorIds(last.arg)[2]
  /\ Count(last.arg, BusPublish(actors)) = 2
  /\ Len(actors) > 2

\* ------------------------------------------------------------------ C5
\* C5: a publish of an action whose identifier extraction yields nothing
\* returns the base bus's full scan: one entry per occurrence in the base
\* subscriber sequence, in its order, whatever the index holds.
C5_NoIdentifierFallback ==
  (Published /\ Unidentified(last.arg)) =>
    /\ last.result = BusPublish(actors)
    /\ last.tested = actors
    /\ Len(last.replies) = Len(actors)

\* A full-scan publish over a bus that holds an identified actor next to a
\* wildcard actor.
C5_Witness ==
  /\ Published /\ Unidentified(last.arg)
  /\ Len(last.result) >= 2
  /\ \E i \in 1..Len(last.result) : ~NoIdentifier(last.result[i])
  /\ Bucket(actorsIndex, WILDCARD) # <<>>

\* ------------------------------------------------------------------ C6
\* C6: a publish of an identified action, when the identifier has no bucket
\* and the wildcard bucket is empty, returns an empty result and calls no
\* test, also when actors are subscribed under other identifiers.
C6_EmptyCandidatePublish ==
  (last.op = "publish" /\ Identified(last.arg)
     /\ Bucket(actorsIndex, getActionIdentifier(last.arg).s) = <<>>
     /\ Bucket(actorsIndex, WILDCARD) = <<>>) =>
    /\ ~last.threw
    /\ last.result = <<>>
    /\ last.tested = <<>>

\* An identified publish that returned nothing although the bus has
\* subscribers under another identifier.
C6_Witness ==
  /\ Published /\ Identified(last.arg)
  /\ last.result = <<>>
  /\ actors # <<>>
  /\ DOMAIN actorsIndex # {}

\* ------------------------------------------------------------------ C7
\* C7: in every reachable state, unsubscribe(A) of an actor A for which no
\* subscribe has been made (and whose identifier path can be followed)
\* returns false and leaves the base subscriber sequence, every bucket and
\* the keys of the index unchanged.
C7_UnknownUnsubscribe ==
  /\ \A actor \in population \ ever :
       Shaped(actor) =>
         LET u == UnsubscribeOp(actors, actorsIndex, actor)
         IN /\ ~u.threw
            /\ u.ret = FALSE
            /\ u.actors = actors
            /\ DOMAIN u.actorsIndex = DOMAIN actorsIndex
            /\ \A key \in DOMAIN actorsIndex : u.actorsIndex[key] = actorsIndex[key]
  /\ (last.op = "unsubscribe" /\ last.arg \notin ever /\ Shaped(last.arg)) =>
       (~last.threw /\ last.ret = FALSE)

\* unsubscribe of a never-subscribed actor has just returned false on a bus
\* that holds another actor in the bucket of one of its identifiers.
C7_Witness ==
  /\ last.op = "unsubscribe" /\ ~last.threw /\ last.ret = FALSE
  /\ last.arg \notin ever
  /\ \E i \in 1..Len(ActorIds(last.arg)) :
       Bucket(actorsIndex, ActorIds(last.arg)[i]) # <<>>

\* ------------------------------------------------------------------ C8
\* C8: after any sequence of subscribe and unsubscribe calls no key of the
\* index maps to an empty actor sequence: removing the last actor of a
\* bucket removes its key.
C8_IndexPruning ==
  \A key \in DOMAIN actorsIndex : actorsIndex[key] # <<>>

\* unsubscribe has just removed the only actor of a bucket, other buckets
\* remain.
C8_Witness ==
  /\ last.op = "unsubscribe" /\ last.ret
  /\ Shaped(last.arg)
  /\ ActorIds(last.arg) # <<>>
  /\ \A i \in 1..Len(ActorIds(last.arg)) :
       ActorIds(last.arg)[i] \notin DOMAIN actorsIndex
  /\ DOMAIN actorsIndex # {}

\* ------------------------------------------------------------------ C9
\* C9: in every reachable state, every actor subscribed and not unsubscribed
\* is in the bucket of each identifier it reports, and in the wildcard bucket
\* if it reports none (its identifier value is absent or an empty sequence).
C9_IndexCoverage ==
  \A actor \in population :
    (Shaped(actor) /\ active[actor] > 0) =>
      LET r == getActorIdentifiers(actor)
      IN /\ r.k = "array" =>
              \A i \in 1..Len(r.q) : actor \in Range(Bucket(actorsIndex, r.q[i]))
         /\ (r.k = "undefined" \/ (r.k = "array" /\ r.q = <<>>)) =>
              actor \in Range(Bucket(actorsIndex, WILDCARD))

\* ------------------------------------------------------------------ C10
\* C10: a publish whose action has a readable identifier path does not
\* throw when the test of a candidate fails: test is called on every
\* candidate and the result has one entry per candidate.
C10_TestFailureIsolation ==
  (last.op = "publish" /\ getActionIdentifier(last.arg).k # "TypeError") =>
    LET candidates == PublishOp(actors, actorsIndex, last.arg).actors
    IN /\ ~last.threw
       /\ last.tested = candidates
       /\ Len(last.result) = Len(candidates)

\* ------------------------------------------------------------------ C11
\* The bus has its field path and following it on the actor (the action)
\* meets a missing intermediate object.
SparseActor(actor) ==
  actorIdentifierFields.k = "array" /\ ~Shaped(actor)
SparseAction(action) ==
  /\ actionIdentifierFields.k = "array"
  /\ getActionIdentifier(action).k = "TypeError"

\* C11: when following the identifier field path of an actor or an action
\* meets a missing intermediate object, the call does not raise: subscribe
\* puts the actor in the wildcard bucket, unsubscribe returns, and publish
\* returns the full scan.
C11_SparseShapeTolerance ==
  /\ (last.op = "subscribe" /\ SparseActor(last.arg)) =>
       (~last.threw /\ last.arg \in Range(Bucket(actorsIndex, WILDCARD)))
  /\ (last.op = "unsubscribe" /\ SparseActor(last.arg)) => ~last.threw
  /\ (last.op = "publish" /\ SparseAction(last.arg)) =>
       (~last.threw /\ last.result = BusPublish(actors))

\* ------------------------------------------------------------------ C12
\* C12: a publish (and the settling of its promises) leaves the base
\* subscriber sequence and every bucket of the index as they were; a step
\* that changes them is a subscribe or an unsubscribe.
C12_PublishReadOnly ==
  [][/\ last'.op = "publish" => (actors' = actors /\ actorsIndex' = actorsIndex)
     /\ (actors' # actors \/ actorsIndex' # actorsIndex) =>
          last'.op \in {"subscribe", "unsubscribe"}]_vars

\* An identified publish over a bucket and the wildcard bucket has returned
\* and all its promises have settled.
C12_Witness ==
  /\ Published /\ Identified(last.arg)
  /\ Bucket(actorsIndex, getActionIdentifier(last.arg).s) # <<>>
  /\ Bucket(actorsIndex, WILDCARD) # <<>>
  /\ \A i \in 1..Len(last.replies) : last.replies[i] # "pending"

\* ------------------------------------------------------------------ C13
\* C13: new BusIndexed(args) with args that lack actorIdentifierFields or
\* actionIdentifierFields throws, and no call is ever made on such a bus.
C13_ConstructionFails ==
  (/\ last.op # "none"
   /\ \/ args.actorIdentifierFields.k = "undefined"
      \/ args.actionIdentifierFields.k = "undefined") =>
    (last.op = "new" /\ last.threw)

\* ------------------------------------------------------------------ C14
\* C14: after any sequence of subscribe and unsubscribe calls, every actor
\* occurs in the base subscriber sequence as often as in all buckets of the
\* index together.
C14_BaseIndexConsistency ==
  \A actor \in population :
    Count(actor, actors)
      = SumLen([key \in DOMAIN actorsIndex |->
                  SelectSeq(actorsIndex[key], LAMBDA x : x = actor)],
               DOMAIN actorsIndex)

\* ------------------------------------------------------------------ C15
\* C15: unsubscribe(actor) returns true if and only if the call removed an
\* occurrence from the base subscriber sequence.
C15_UnsubscribeResult ==
  [][(last'.op = "unsubscribe" /\ ~last'.threw) =>
       (last'.ret <=> Len(actors') < Len(actors))]_vars

\* unsubscribe has just returned true for an actor that no bucket of the
\* index holds and that the base subscriber sequence still holds.
C15_Witness ==
  /\ last.op = "unsubscribe" /\ ~last.threw /\ last.ret
  /\ last.arg \in Range(actors)
  /\ \A key \in DOMAIN actorsIndex : last.arg \notin Range(actorsIndex[key])

\* ------------------------------------------------------------------ C16
\* The actor reports at least one identifier.
ReportsIdentifiers(actor) ==
  /\ Shaped(actor) /\ ~NoIdentifier(actor)
  /\ ActorIds(actor) # <<>>

\* C16: an identified publish returns an actor once per subscribe call not
\* yet cancelled by an unsubscribe call, for each identifier the actor
\* reports that the action carries, and through the wildcard bucket when the
\* actor reports none.
C16_DuplicateSubscriptions ==
  (Published /\ Identified(last.arg)) =>
    \A actor \in population :
      /\ (ReportsIdentifiers(actor)
            /\ getActionIdentifier(last.arg).s \in Range(ActorIds(actor))) =>
           Count(actor, last.result) = active[actor]
      /\ (Shaped(actor) /\ ~ReportsIdentifiers(actor)) =>
           Count(actor, last.result) = active[actor]

\* ------------------------------------------------------------------ C17
\* C17: the wildcard bucket holds only actors that report no identifier; an
\* identified publish tests an actor that reports identifiers only when the
\* action's identifier is one of them, and tests each occurrence of the
\* wildcard bucket exactly once.
C17_WildcardReserved ==
  /\ \A actor \in Range(Bucket(actorsIndex, WILDCARD)) :
       ~ReportsIdentifiers(actor)
  /\ (Published /\ Identified(last.arg)) =>
       /\ \A actor \in Range(last.tested) :
            ReportsIdentifiers(actor) =>
              getActionIdentifier(last.arg).s \in Range(ActorIds(actor))
       /\ \A actor \in Range(Bucket(actorsIndex, WILDCARD)) :
            Count(actor, last.tested)
              = Count(actor, Bucket(actorsIndex, WILDCARD))

\* ------------------------------------------------------------------ C19
\* C19: every actor an identified publish returns is in the base subscriber
\* sequence, and no bucket of the index holds an actor more often than the
\* base subscriber sequence does.
C19_IndexWithinFullScan ==
  /\ (Published /\ Identified(last.arg)) =>
       Range(last.result) \subseteq Range(BusPublish(actors))
  /\ \A key \in DOMAIN actorsIndex : \A actor \in Range(actorsIndex[key]) :
       Count(actor, actorsIndex[key]) <= Count(actor, actors)

\* An identified publish has returned some of the subscribed actors and the
\* full scan would test an actor it did not return.
C19_Witness ==
  /\ Published /\ Identified(last.arg)
  /\ last.result # <<>>
  /\ Range(last.result) # Range(actors)

\* ------------------------------------------------------------------ C18
\* The candidate set of the bus as it is now, for the action of the publish
\* under way.
CandidatesNow == PublishOp(actors, actorsIndex, inflight.action).actors

\* C18: the entries an identified publish makes, and the array it returns,
\* are the candidate set of the bus state in which the publish started, in
\* that order, whatever subscribe and unsubscribe calls were made since.
C18_CandidateSnapshot ==
  /\ inflight.phase = "mapping" =>
       inflight.result = SubSeq(inflight.copy, 1, Len(inflight.result))
  /\ inflight.phase = "returned" => inflight.result = inflight.copy

\* map() is between two test calls and the candidate set of the bus is no
\* longer the one the publish started with.
C18_Witness ==
  /\ inflight.phase = "mapping"
  /\ Len(inflight.result) > 0
  /\ Len(inflight.result) < Len(inflight.copy)
  /\ CandidatesNow # inflight.copy
  /\ last.op \in {"subscribe", "unsubscribe"} /\ ~last.threw

\* ------------------------------------------------------------------ C20
\* The quads the stream emitted before its first 'end'.
RECURSIVE ReceivedBeforeEnd(_)
ReceivedBeforeEnd(events) ==
  IF events = <<>> \/ Head(events).type = "end" THEN <<>>
  ELSE IF Head(events).type = "data"
       THEN <<Head(events).quad>> \o ReceivedBeforeEnd(Tail(events))
       ELSE ReceivedBeforeEnd(Tail(events))

\* The nested map of the Hydra quads of a sequence: per property (the
\* predicate without the prefix) and subject, the objects in order.
Expected(quads) ==
  LET hydra == SelectSeq(quads, LAMBDA x : StartsWith(x.predicate, HYDRA))
      PropertyOf(x) == Slice(x.predicate, Len(HYDRA))
  IN [property \in {PropertyOf(hydra[i]) : i \in 1..Len(hydra)} |->
       LET ofProperty == SelectSeq(hydra, LAMBDA x : PropertyOf(x) = property)
       IN [subject \in {ofProperty[i].subject : i \in 1..Len(ofProperty)} |->
            LET ofSubject ==
                  SelectSeq(ofProperty, LAMBDA x : x.subject = subject)
            IN [i \in 1..Len(ofSubject) |-> ofSubject[i].object]]]

\* The first 'end' or 'error' event of the stream is of this type.
FirstIs(type) ==
  \E i \in 1..Len(emitted) :
    /\ emitted[i].type = type
    /\ \A j \in 1..(i - 1) : emitted[j].type = "data"

\* C20: the promise of getHydraProperties settles once: it is resolved from
\* the first 'end' on, when no 'error' came before, with the nested map of
\* the Hydra quads received before 'end', objects in arrival order; it is
\* rejected from the first 'error' on, when no 'end' came before; it is
\* pending until then, and later events do not change it.
C20_HydraPropertiesSettle ==
  /\ FirstIs("end") =>
       promise = [state |-> "resolved",
                  value |-> Expected(ReceivedBeforeEnd(emitted))]
  /\ FirstIs("error") => promise.state = "rejected"
  /\ (promise.state # "none" /\ ~FirstIs("end") /\ ~FirstIs("error")) =>
       promise.state = "pending"

\* The promise is resolved with a map that holds two objects for one
\* property and subject, and the stream emitted 'end' last.
C20_Witness ==
  /\ promise.state = "resolved"
  /\ emitted # <<>> /\ emitted[Len(emitted)].type = "end"
  /\ \E property \in DOMAIN promise.value :
       \E subject \in DOMAIN promise.value[property] :
         promise.value[property][subject] = <<"o2", "o1">>

====
